---- MODULE Spec2Model ----
(***************************************************************************)
(* Deck-Scanner: the DeckScannerService session / admission-gate pipeline  *)
(* and the DatabaseService stores it writes (src/deck-scanner-pwa.js).     *)
(*                                                                         *)
(* JavaScript runs one task at a time.  An action of this model is one     *)
(* task: a public method called by the UI up to its first suspension, or   *)
(* the settling of one awaited operation together with the continuation    *)
(* that runs after it up to the next suspension.                           *)
(*                                                                         *)
(* Confidences are percentages (0.75 is 75), prices are cents, times are   *)
(* hours.  A string is a sequence of one-character strings.                *)
(***************************************************************************)
EXTENDS Integers, Sequences, FiniteSets, TLC

----------------------------------------------------------------------------
(* Bounds of the model *)

MaxFrames == 2      \* processVideoFrame calls issued in a behaviour
MaxStarts == 2      \* startBatchScanning calls issued in a behaviour
MaxResults == 3     \* results in an accumulator whose summary is computed
MaxLookups == 3     \* getPricingData calls made on the DatabaseService alone
MaxLoad == 2        \* entries of a collection of data/initial_data.json

----------------------------------------------------------------------------
(* Program constants *)

Threshold == 75     \* result.confidence > 0.75
StaleHours == 24    \* hoursSinceUpdate > 24

----------------------------------------------------------------------------
(* Inputs: the external collaborators' data *)

\* labels.json: the fixed label set, indexed by the classifier's output.
labels ==
  << [id |-> "d1", manufacturer |-> <<"B", "e", "e">>,
      casino |-> <<"A", "r", "i", "a">>],
     [id |-> "d2", manufacturer |-> <<"U", "S">>, casino |-> <<>>] >>

\* Probabilities the classifier can report for a label: exactly the
\* threshold, and above it.
ConfValues == {75, 76}

\* The classifier's output: one probability per label.
PredictionVectors == [1..Len(labels) -> ConfValues]

\* Texts the OCR engine can return.
OcrTexts == { <<"B", "E", "E", " ", "a", "r", "i", "a">> }

\* data/initial_data.json: the pricing records loaded into the pricing store.
InitialPricing ==
  { [id |-> "p1", deckId |-> "d1", buyPrice |-> 200, sellPrice |-> 1200,
     lastUpdated |-> 0, dataSource |-> "initial"] }

\* data/initial_data.json: the deck catalog loaded into the decks store;
\* visualHash is visualData.backImageHash.
InitialDecks ==
  { [deckId |-> "d1", visualHash |-> "h1"],
    [deckId |-> "d2", visualHash |-> "h2"] }

\* Values of `new Date()` at a pricing lookup: exactly 24 hours, and more
\* than 24 hours, after the lastUpdated of the initial pricing record.
Clock == {24, 25}

----------------------------------------------------------------------------
(* State *)

VARIABLES
  isModelLoaded,    \* DeckScannerService.isModelLoaded
  initResult,       \* what initialize() returned: "none" (not called yet),
                    \* "ok" (true) or "failed" (false)
  batchActive,      \* DeckScannerService.batchActive (undefined is FALSE)
  processingLock,   \* DeckScannerService.processingLock
  scanResults,      \* DeckScannerService.scanResults
  inflight,         \* processVideoFrame calls suspended at an await
  pricingStore,     \* IndexedDB store 'pricing'
  scanHistory,      \* IndexedDB store 'scan_history'
  syncQueue,        \* IndexedDB store 'sync_queue', in key order
  pendingAdds,      \* requests on 'sync_queue' not yet settled (the adds of
                    \* the page, the getAll and clear of syncData), in the
                    \* order their transactions were created
  uuidCount,        \* number of session ids drawn from uuidv4() so far
  starts,           \* the sessionIds startBatchScanning returned, in order
  carried,          \* frames that were in scanResults at an earlier start
  notified,         \* frames whose result was passed to onResult
  identified,       \* frames whose result was passed to the onDeckIdentified
                    \* callback given to startBatchScanning
  log,              \* per processVideoFrame call: how it ended
  returned,         \* what stopBatchScanning returned, "none" before it
  returnedInFrameOrder,  \* what it returns for the same results accepted
                    \* in the order of their frames
  lookups,          \* the getPricingData calls made on the DatabaseService
                    \* alone: deckId, time and the record resolved with
  decksStore,       \* IndexedDB store 'decks'
  deckTx,           \* loadInitialData's transaction on 'decks'
  pricingTx,        \* loadInitialData's transaction on 'pricing'
  loadPc,           \* loadInitialData: "awaiting" the fetch, "placed" its
                    \* requests, "caught" an error, or "done"
  drains,           \* the syncData runs of the service worker, in the order
                    \* of their sync events
  saves,            \* the saveScanRecord calls made on the DatabaseService
                    \* alone, each with the state of its transaction
  images,           \* the processImage calls made on the service directly,
                    \* each with the tensors it allocated and has not disposed
  verified,         \* the verifyTextResults call made directly: its
                    \* arguments and the object it returned
  view              \* the ScannerView component: its React state and the
                    \* animation frame callbacks it has requested

vars == << isModelLoaded, initResult, batchActive, processingLock,
           scanResults, inflight,
           pricingStore, scanHistory, syncQueue, pendingAdds, uuidCount, starts,
           carried,
           notified, identified, log, returned, returnedInFrameOrder,
           lookups, decksStore, deckTx, pricingTx, loadPc, drains, saves,
           images, verified, view >>

service == << isModelLoaded, initResult, batchActive, processingLock,
             scanResults >>
stores == << pricingStore, scanHistory, syncQueue, pendingAdds >>
session == << starts, carried >>
callbacks == << notified, identified >>
summaries == << returned, returnedInFrameOrder >>
load == << decksStore, deckTx, pricingTx, loadPc >>
sync == << drains, saves >>
calls == << images, verified, view >>
direct == << summaries, lookups, load, sync, calls >>

\* The sessionId the caller holds: the one the latest startBatchScanning
\* returned (0 before the first call).
currentSession ==
  IF starts = << >> THEN 0 ELSE starts[Len(starts)]

\* Every sessionId startBatchScanning has returned.
returnedIds == {starts[i] : i \in 1..Len(starts)}

----------------------------------------------------------------------------
(* Pure helpers *)

UpperChars == <<"A", "B", "E", "I", "R", "S", "U">>
LowerChars == <<"a", "b", "e", "i", "r", "s", "u">>

\* String.prototype.toLowerCase, one character.
LowerChar(ch) ==
  IF \E i \in 1..Len(UpperChars) : UpperChars[i] = ch
  THEN LowerChars[CHOOSE i \in 1..Len(UpperChars) : UpperChars[i] = ch]
  ELSE ch

\* Variant: the strings are compared as they are.
toLowerCase_Identity(str) == str

\* String.prototype.toLowerCase.
toLowerCase(str) == [i \in 1..Len(str) |-> LowerChar(str[i])]

\* String.prototype.includes: sub occurs in str as a contiguous run.
includes(str, sub) ==
  \E i \in 0..(Len(str) - Len(sub)) : SubSeq(str, i + 1, i + Len(sub)) = sub

\* The loop of getTopPredictionIndex from index i on, with the running
\* maximum (maxIdx, maxVal); indices are 1-based here, 0-based in the code.
RECURSIVE TopLoop(_, _, _, _)
TopLoop(predictions, i, maxIdx, maxVal) ==
  IF i > Len(predictions) THEN maxIdx
  ELSE IF predictions[i] > maxVal
       THEN TopLoop(predictions, i + 1, i, predictions[i])
       ELSE TopLoop(predictions, i + 1, maxIdx, maxVal)

getTopPredictionIndex(predictions) ==
  TopLoop(predictions, 2, 1, predictions[1])

\* verificationScore in tenths: 10 is 1.0, 7 is 0.7, 3 is 0.3.
verifyTextResults(text, deckInfo) ==
  LET textLower == toLowerCase(text)
      manufacturerFound == includes(textLower, toLowerCase(deckInfo.manufacturer))
      casinoFound == IF deckInfo.casino # <<>>
                     THEN includes(textLower, toLowerCase(deckInfo.casino))
                     ELSE FALSE
  IN [manufacturerVerified |-> manufacturerFound,
      casinoVerified |-> casinoFound,
      verificationScore |->
        IF manufacturerFound THEN (IF casinoFound THEN 10 ELSE 7) ELSE 3]

\* uuidv4() in startBatchScanning: a value no earlier call returned.  (The
\* id it yields for a scanRecord is named after the record's frame.)
uuidv4 == uuidCount + 1

----------------------------------------------------------------------------
(* The decisions of processVideoFrame and startBatchScanning *)

\* Variant: the batchActive check is missing.
SessionActive_NoCheck == TRUE

\* `if (!this.batchActive) return;` passes.
SessionActive == batchActive

\* Variant: the processingLock check is missing.
GateFree_NoCheck == TRUE

\* `if (this.processingLock) return;` passes.
GateFree == ~processingLock

\* Variant: the threshold is inclusive.
AboveThreshold_Inclusive(confidence) == confidence >= Threshold

\* `if (result.confidence > 0.75)`.
AboveThreshold(confidence) == confidence > Threshold

\* Variant: the early returns sit inside the try block, so finally runs.
LockAfterSkip_Released == FALSE

\* processingLock after an early return: the returns come before the try
\* block, so the finally block does not run and the lock is not touched.
LockAfterSkip == processingLock

\* processingLock after the try block ran to its end: the finally block
\* sets it to false.
LockAfterReturn == FALSE

\* Variant: the release is the last statement of the try block instead of
\* a finally block, so a throw skips it.
LockAfterThrow_Kept == processingLock

\* processingLock after a throw inside the try block: the catch block
\* logs, then the finally block sets the lock to false.
LockAfterThrow == FALSE

\* Variant: the catch block ends the session.
ActiveAfterCatch_Aborts == FALSE

\* batchActive after the catch block: it only logs the error.
ActiveAfterCatch == batchActive

\* Variant: the result is pushed before saveScanRecord is awaited, so a
\* rejected save leaves it in the accumulator.
ResultsAfterCatch_Pushed(c) ==
  IF c.pc = "save"
  THEN Append(scanResults,
              [frame |-> c.frame, deckId |-> c.deckId,
               confidence |-> c.confidence,
               verificationScore |-> c.verificationScore,
               pricing |-> [buyPrice |-> c.buyPrice,
                            sellPrice |-> c.sellPrice,
                            dataSource |-> c.dataSource]])
  ELSE scanResults

\* scanResults after the catch block of a call suspended at c.pc: the push
\* comes after every await, so nothing was pushed.
ResultsAfterCatch(c) == scanResults

\* Variant: startBatchScanning keeps the old results.
ClearedResults_Kept == scanResults

\* `this.scanResults = [];` in startBatchScanning.
ClearedResults == << >>

----------------------------------------------------------------------------
(* Natural numbers of any size, as sequences of limbs in base 2^15, the    *)
(* least significant limb first and no zero limb at the top.               *)

LimbBits == 15
Base == 32768

RECURSIVE Pow2(_)
Pow2(n) == IF n = 0 THEN 1 ELSE 2 * Pow2(n - 1)

RECURSIVE Bits(_)
Bits(x) == IF x = 0 THEN 0 ELSE 1 + Bits(x \div 2)

Limb(a, i) == IF i <= Len(a) THEN a[i] ELSE 0

RECURSIVE BNorm(_)
BNorm(a) ==
  IF a = << >> THEN a
  ELSE IF a[Len(a)] = 0 THEN BNorm(SubSeq(a, 1, Len(a) - 1))
  ELSE a

RECURSIVE BFromNat(_)
BFromNat(n) ==
  IF n = 0 THEN << >> ELSE << n % Base >> \o BFromNat(n \div Base)

RECURSIVE BToNat(_)
BToNat(a) ==
  IF a = << >> THEN 0 ELSE a[1] + Base * BToNat(Tail(a))

RECURSIVE BAddFrom(_, _, _, _)
BAddFrom(a, b, i, carry) ==
  IF i > Len(a) /\ i > Len(b)
  THEN IF carry = 0 THEN << >> ELSE << carry >>
  ELSE LET t == Limb(a, i) + Limb(b, i) + carry
       IN << t % Base >> \o BAddFrom(a, b, i + 1, t \div Base)

BAdd(a, b) == BAddFrom(a, b, 1, 0)

\* a - b, for a >= b
RECURSIVE BSubFrom(_, _, _, _)
BSubFrom(a, b, i, borrow) ==
  IF i > Len(a) THEN << >>
  ELSE LET t == Limb(a, i) - Limb(b, i) - borrow
       IN IF t < 0
          THEN << t + Base >> \o BSubFrom(a, b, i + 1, 1)
          ELSE << t >> \o BSubFrom(a, b, i + 1, 0)

BSub(a, b) == BNorm(BSubFrom(a, b, 1, 0))

\* -1, 0 or 1 as a < b, a = b or a > b
RECURSIVE BCmpFrom(_, _, _)
BCmpFrom(a, b, i) ==
  IF i = 0 THEN 0
  ELSE IF a[i] < b[i] THEN -1
  ELSE IF a[i] > b[i] THEN 1
  ELSE BCmpFrom(a, b, i - 1)

BCmp(a, b) ==
  IF Len(a) < Len(b) THEN -1
  ELSE IF Len(a) > Len(b) THEN 1
  ELSE BCmpFrom(a, b, Len(a))

\* a * k, for k <= Base
RECURSIVE BMulSmallFrom(_, _, _, _)
BMulSmallFrom(a, k, i, carry) ==
  IF i > Len(a)
  THEN IF carry = 0 THEN << >> ELSE << carry >>
  ELSE LET t == a[i] * k + carry
       IN << t % Base >> \o BMulSmallFrom(a, k, i + 1, t \div Base)

BMulSmall(a, k) == BNorm(BMulSmallFrom(a, k, 1, 0))

BShlLimbs(a, n) == IF a = << >> THEN a ELSE [i \in 1..n |-> 0] \o a

RECURSIVE BMulFrom(_, _, _)
BMulFrom(a, b, j) ==
  IF j > Len(b) THEN << >>
  ELSE BAdd(BShlLimbs(BMulSmall(a, b[j]), j - 1), BMulFrom(a, b, j + 1))

BMul(a, b) == BMulFrom(a, b, 1)

\* the quotient of a by k, for 0 < k <= Base
RECURSIVE BDivSmallFrom(_, _, _, _)
BDivSmallFrom(a, k, i, rem) ==
  IF i = 0 THEN << >>
  ELSE LET t == rem * Base + a[i]
       IN BDivSmallFrom(a, k, i - 1, t % k) \o << t \div k >>

BDivSmall(a, k) == BNorm(BDivSmallFrom(a, k, Len(a), 0))

\* a * 2^n and the integer part of a / 2^n
BShl(a, n) == BMulSmall(BShlLimbs(a, n \div LimbBits), Pow2(n % LimbBits))

BShr(a, n) ==
  IF n \div LimbBits >= Len(a) THEN << >>
  ELSE BDivSmall(SubSeq(a, n \div LimbBits + 1, Len(a)), Pow2(n % LimbBits))

BitLen(a) ==
  IF a = << >> THEN 0 ELSE LimbBits * (Len(a) - 1) + Bits(a[Len(a)])

BOdd(a) == a # << >> /\ a[1] % 2 = 1

\* The quotient of the top limbs of r by the top limb of b, at most
\* Base - 1.
Estimate(r, b) ==
  LET top == Limb(r, Len(b) + 1) * Base + Limb(r, Len(b))
  IN IF top \div b[Len(b)] >= Base THEN Base - 1 ELSE top \div b[Len(b)]

\* The largest d with d * b <= r, given that it is est, est - 1 or est - 2.
Corrected(r, b, est) ==
  IF BCmp(BMulSmall(b, est), r) <= 0 THEN est
  ELSE IF BCmp(BMulSmall(b, est - 1), r) <= 0 THEN est - 1
  ELSE est - 2

\* The largest d with d * b <= r, for r < b * Base and a b whose top limb is
\* at least Base / 2: the estimate is d, d + 1 or d + 2.
QuotientLimb(r, b) == Corrected(r, b, Estimate(r, b))

\* The state of a long division in base 2^15, from the top limb down: todo
\* holds the limbs not yet divided, q and r the quotient and the remainder
\* of the limbs above them.  After the limb d of the quotient is found for
\* r2, the remainder with the next limb brought down:
Subtracted(b, todo, q, r2, d) ==
  [todo |-> SubSeq(todo, 1, Len(todo) - 1),
   q |-> BNorm(<< d >> \o q),
   r |-> BSub(r2, BMulSmall(b, d))]

DivideLimb(b, todo, q, r2) == Subtracted(b, todo, q, r2, QuotientLimb(r2, b))

RECURSIVE BDivModFrom(_, _)
BDivModFrom(b, acc) ==
  IF acc.todo = << >> THEN acc
  ELSE BDivModFrom(b, DivideLimb(b, acc.todo, acc.q,
                                 BNorm(<< acc.todo[Len(acc.todo)] >>
                                       \o acc.r)))

Unscaled(h, scale) == [q |-> h.q, r |-> BShr(h.r, scale)]

\* quotient and remainder of a by b > 0: both are scaled to bring the top
\* limb of b to at least Base / 2, which scales the remainder
Scaled(a, b, scale) ==
  Unscaled(BDivModFrom(BShl(b, scale),
                       [todo |-> BShl(a, scale), q |-> << >>, r |-> << >>]),
           scale)

BDivMod(a, b) == Scaled(a, b, LimbBits - Bits(b[Len(b)]))

----------------------------------------------------------------------------
(* JavaScript Numbers: IEEE 754 binary64, every operation rounded to the   *)
(* nearest value, ties to even.  A finite nonzero Number is                *)
(* (-1)^s * m * 2^e with m of exactly 53 bits; the exponent range is not   *)
(* bounded (no price reaches it) and zero carries no sign.                 *)

MantissaBits == 53

Zero == [k |-> "zero", s |-> 0, m |-> << >>, e |-> 0]
NaN == [k |-> "nan", s |-> 0, m |-> << >>, e |-> 0]
Infinity(s) == [k |-> "inf", s |-> s, m |-> << >>, e |-> 0]

\* (-1)^s * q * 2^e for a q of 53 or, after rounding up, 54 bits.
Renormalised(s, q, e) ==
  IF BitLen(q) > MantissaBits
  THEN [k |-> "fin", s |-> s, m |-> BShr(q, 1), e |-> e + 1]
  ELSE [k |-> "fin", s |-> s, m |-> q, e |-> e]

\* q rounded to the nearest, ties to even: half is -1, 0 or 1 as the bits
\* dropped are less than, equal to or more than half a unit of q.
Nearest(q, half) ==
  IF half > 0 \/ (half = 0 /\ BOdd(q)) THEN BAdd(q, << 1 >>) ELSE q

\* n without its lowest `drop` bits, rounded, where q is n shifted right.
Rounded(s, n, e, drop, q) ==
  Renormalised(s, Nearest(q, BCmp(BSub(n, BShl(q, drop)),
                                  BShl(<< 1 >>, drop - 1))),
               e + drop)

\* The Number nearest to (-1)^s * n * 2^e, for an n > 0 of len bits.
RoundBits(s, n, e, len) ==
  IF len <= MantissaBits
  THEN [k |-> "fin", s |-> s, m |-> BShl(n, MantissaBits - len),
        e |-> e - (MantissaBits - len)]
  ELSE Rounded(s, n, e, len - MantissaBits, BShr(n, len - MantissaBits))

\* The Number nearest to (-1)^s * n * 2^e, for n > 0.
RoundToNumber(s, n, e) == RoundBits(s, n, e, BitLen(n))

\* An integer of the program as a Number.
FromNat(n) == IF n = 0 THEN Zero ELSE RoundToNumber(0, BFromNat(n), 0)

Negated(x) == [x EXCEPT !.s = 1 - x.s]

\* a * 2^e - b * 2^e, for the magnitudes a of sign s and b of the other sign
Difference(s, a, b, e) ==
  IF BCmp(a, b) = 0 THEN Zero
  ELSE IF BCmp(a, b) > 0 THEN RoundToNumber(s, BSub(a, b), e)
  ELSE RoundToNumber(1 - s, BSub(b, a), e)

\* The sum of x = (-1)^x.s * a * 2^e and y = (-1)^y.s * b * 2^e.
Sum(x, y, a, b, e) ==
  IF x.s = y.s THEN RoundToNumber(x.s, BAdd(a, b), e)
  ELSE Difference(x.s, a, b, e)

Aligned(x, y, e) == Sum(x, y, BShl(x.m, x.e - e), BShl(y.m, y.e - e), e)

\* x + y
NumAdd(x, y) ==
  IF x.k = "nan" \/ y.k = "nan" THEN NaN
  ELSE IF x.k = "inf"
       THEN IF y.k = "inf" /\ y.s # x.s THEN NaN ELSE x
  ELSE IF y.k = "inf" THEN y
  ELSE IF x.k = "zero" THEN y
  ELSE IF y.k = "zero" THEN x
  ELSE Aligned(x, y, IF x.e < y.e THEN x.e ELSE y.e)

\* x - y
NumSub(x, y) == NumAdd(x, Negated(y))

\* x * y
NumMul(x, y) ==
  LET s == (x.s + y.s) % 2 IN
    IF x.k = "nan" \/ y.k = "nan" THEN NaN
    ELSE IF x.k = "inf" \/ y.k = "inf"
         THEN IF x.k = "zero" \/ y.k = "zero" THEN NaN ELSE Infinity(s)
    ELSE IF x.k = "zero" \/ y.k = "zero" THEN Zero
    ELSE RoundToNumber(s, BMul(x.m, y.m), x.e + y.e)

\* (-1)^s * (d.q + d.r / b) * 2^(e + 1), rounded: a bit is appended to the
\* quotient that tells whether the division left a remainder.
RoundQuotient(s, d, e) ==
  RoundToNumber(s, BAdd(BMulSmall(d.q, 2),
                        IF d.r = << >> THEN << >> ELSE << 1 >>), e)

\* x / y
NumDiv(x, y) ==
  IF x.k = "nan" \/ y.k = "nan" THEN NaN
  ELSE IF x.k = "inf"
       THEN IF y.k = "inf" THEN NaN ELSE Infinity((x.s + y.s) % 2)
  ELSE IF y.k = "inf" THEN Zero
  ELSE IF y.k = "zero"
       THEN IF x.k = "zero" THEN NaN ELSE Infinity((x.s + y.s) % 2)
  ELSE IF x.k = "zero" THEN Zero
  ELSE RoundQuotient((x.s + y.s) % 2,
                     BDivMod(BShl(x.m, MantissaBits + 3), y.m),
                     x.e - y.e - (MantissaBits + 3) - 1)

Positive(d) == d.k \in {"fin", "inf"} /\ d.s = 0

\* x > y
NumGreater(x, y) == Positive(NumSub(x, y))

RECURSIVE Pow10(_)
Pow10(n) == IF n = 0 THEN 1 ELSE 10 * Pow10(n - 1)

\* Number.prototype.toFixed(digits): the decimal string with `digits`
\* digits after the point that is nearest to x, the larger one of two
\* equally near; written as the sign and the integer n of n / 10^digits.
toFixed(x, digits) ==
  IF x.k = "nan" THEN [k |-> "NaN", s |-> 0, n |-> 0, digits |-> 0]
  ELSE IF x.k = "inf" THEN [k |-> "Infinity", s |-> x.s, n |-> 0, digits |-> 0]
  ELSE IF x.k = "zero" THEN [k |-> "num", s |-> 0, n |-> 0, digits |-> digits]
  ELSE LET p == BMulSmall(x.m, Pow10(digits))
           n == IF x.e >= 0 THEN BShl(p, x.e)
                ELSE LET q == BShr(p, -x.e)
                         rest == BSub(p, BShl(q, -x.e))
                     IN IF BCmp(rest, BShl(<< 1 >>, -x.e - 1)) >= 0
                        THEN BAdd(q, << 1 >>) ELSE q
       IN [k |-> "num", s |-> x.s, n |-> BToNat(n), digits |-> digits]

----------------------------------------------------------------------------
(* DeckScannerService.stopBatchScanning: the summary of an accumulator *)

\* A price of the model, written in cents, as the Number the program holds:
\* the nearest Number to cents / 100, as JSON.parse yields for the literal.
Price(cents) == NumDiv(FromNat(cents), FromNat(100))

\* The results with r.pricing.buyPrice and r.pricing.sellPrice as Numbers.
Priced(results) ==
  [i \in 1..Len(results) |->
     [r |-> results[i],
      buyPrice |-> Price(results[i].pricing.buyPrice),
      sellPrice |-> Price(results[i].pricing.sellPrice)]]

Profit(p) == NumSub(p.sellPrice, p.buyPrice)

Margin(p) == NumMul(NumDiv(Profit(p), p.buyPrice), FromNat(100))

\* results.reduce((sum, r) => sum + f(r), 0), from element i on; terms[i]
\* is f(results[i])
RECURSIVE ReduceSum(_, _, _)
ReduceSum(terms, i, sum) ==
  IF i > Len(terms) THEN sum
  ELSE ReduceSum(terms, i + 1, NumAdd(sum, terms[i]))

BuyPriceOf(p) == p.buyPrice
SellPriceOf(p) == p.sellPrice

\* Variant: a later result of equal profit replaces the earlier one.
MoreProfitable_OrEqual(p, max) == ~NumGreater(Profit(max), Profit(p))

\* `(r.pricing.sellPrice - r.pricing.buyPrice) >
\*  (max.pricing.sellPrice - max.pricing.buyPrice)`
MoreProfitable(p, max) == NumGreater(Profit(p), Profit(max))

\* results.reduce((max, r) => ... ? r : max, results[0]), from element i on
RECURSIVE ReduceMax(_, _, _)
ReduceMax(ps, i, max) ==
  IF i > Len(ps) THEN max
  ELSE ReduceMax(ps, i + 1, IF MoreProfitable(ps[i], max) THEN ps[i] ELSE max)

\* The value null.
Null == [null |-> TRUE]

\* Variant: the margin of an empty accumulator is computed like any other.
EmptyMargin_Computed ==
  [text |-> toFixed(NumDiv(Zero, FromNat(0)), 1), suffix |-> "%"]

\* The string '0%'.
EmptyMargin ==
  [text |-> [k |-> "num", s |-> 0, n |-> 0, digits |-> 0], suffix |-> "%"]

\* `const summary = {...}`, for the results and their prices as Numbers
Summary(results, ps) ==
  [totalDecks |-> Len(results),
   totalBuyValue |->
     toFixed(ReduceSum([i \in 1..Len(ps) |-> BuyPriceOf(ps[i])], 1, Zero),
             2),
   totalSellValue |->
     toFixed(ReduceSum([i \in 1..Len(ps) |-> SellPriceOf(ps[i])], 1, Zero),
             2),
   totalProfit |->
     toFixed(ReduceSum([i \in 1..Len(ps) |-> Profit(ps[i])], 1, Zero), 2),
   averageMargin |->
     IF Len(results) > 0
     THEN [text |->
             toFixed(NumDiv(ReduceSum([i \in 1..Len(ps) |-> Margin(ps[i])],
                                      1, Zero),
                            FromNat(Len(results))), 1),
           suffix |-> "%"]
     ELSE EmptyMargin,
   mostProfitable |->
     IF Len(results) > 0 THEN ReduceMax(ps, 1, ps[1]).r ELSE Null]

BatchScanSummary(results) == Summary(results, Priced(results))

----------------------------------------------------------------------------
(* Records *)

\* A processVideoFrame call that has acquired the gate, suspended at `pc`.
NewCall(frame, sid, pc) ==
  [frame |-> frame, sessionId |-> sid, pc |-> pc,
   deckId |-> "", confidence |-> 0, verificationScore |-> 0,
   buyPrice |-> 0, sellPrice |-> 0, dataSource |-> "", recordId |-> 0]

\* The object processImage returns.  deckName, manufacturer and casino are
\* functions of deckId and are left out; frame stands for the timestamp.
ResultOf(c) ==
  [frame |-> c.frame, deckId |-> c.deckId, confidence |-> c.confidence,
   verificationScore |-> c.verificationScore,
   pricing |-> [buyPrice |-> c.buyPrice, sellPrice |-> c.sellPrice,
                dataSource |-> c.dataSource]]

\* The scanRecord processVideoFrame builds; frame stands for the timestamp.
ScanRecordOf(c) ==
  [id |-> c.recordId, sessionId |-> c.sessionId, deckId |-> c.deckId,
   frame |-> c.frame, confidence |-> c.confidence,
   pricingSnapshot |-> [buyPrice |-> c.buyPrice, sellPrice |-> c.sellPrice]]

\* The `type` of the tasks in 'sync_queue'.
TaskTypes == {"pricing_sync", "history_sync"}

\* The tasks queuePricingSyncTask and queueScanHistorySyncTask add.
PricingSyncTask(deckId) ==
  [type |-> "pricing_sync", deckId |-> deckId, recordId |-> 0,
   status |-> "pending"]

HistorySyncTask(recordId) ==
  [type |-> "history_sync", deckId |-> "", recordId |-> recordId,
   status |-> "pending"]

\* The record getPricingData resolves with when the index has no entry
\* (the fields of metadata are written flat, here and in the store).
DefaultPricing(deckId, now) ==
  [id |-> << "default_", deckId >>, deckId |-> deckId,
   buyPrice |-> 0, sellPrice |-> 0,
   lastUpdated |-> now, dataSource |-> "default"]

\* What is recorded of a processVideoFrame call: how it ended, the session
\* it was submitted to and the confidence it found.
LogEntry(outcome, sid) == [outcome |-> outcome, sid |-> sid, confidence |-> 0]

Ended(c, outcome) == [log EXCEPT ![c.frame].outcome = outcome]

\* An IndexedDB readwrite transaction of loadInitialData: its state, the add
\* requests it has not processed yet, the records it has written, and the
\* error of the request that failed.
NoTransaction ==
  [state |-> "none", requests |-> << >>, added |-> {}, error |-> "none"]

Active(requests) ==
  [state |-> "active", requests |-> requests, added |-> {},
   error |-> "none"]

Committed(records) ==
  [state |-> "committed", requests |-> << >>, added |-> records,
   error |-> "none"]

Aborted(error) ==
  [state |-> "aborted", requests |-> << >>, added |-> {}, error |-> error]

\* ScannerView as it is mounted for the n-th scan: the useState and useRef
\* initial values.  `camera` is the getUserMedia request ("none" before the
\* first); raf holds the callbacks passed to requestAnimationFrame and not
\* run or cancelled yet, each with the `scanning` its closure captured.
NewView(n) ==
  [mounted |-> TRUE, initializing |-> TRUE, cameraPermission |-> FALSE,
   camera |-> "none", facingMode |-> "environment", scanning |-> FALSE,
   raf |-> {}, scans |-> n]

----------------------------------------------------------------------------
(* Initial state: a constructed DeckScannerService over the loaded stores *)

Init ==
  /\ isModelLoaded = FALSE
  /\ initResult = "none"
  /\ batchActive = FALSE
  /\ processingLock = FALSE
  /\ scanResults = << >>
  /\ inflight = {}
  /\ pricingStore = InitialPricing
  /\ scanHistory = {}
  /\ syncQueue = << >>
  /\ pendingAdds = << >>
  /\ uuidCount = 0
  /\ starts = << >>
  /\ carried = {}
  /\ notified = << >>
  /\ identified = << >>
  /\ log = << >>
  /\ returned = << >>
  /\ returnedInFrameOrder = << >>
  /\ lookups = << >>
  /\ decksStore = InitialDecks
  /\ deckTx = Committed(InitialDecks)
  /\ pricingTx = Committed(InitialPricing)
  /\ loadPc = "done"
  /\ drains = << >>
  /\ saves = << >>
  /\ images = << >>
  /\ verified = << >>
  /\ view = NewView(0)

----------------------------------------------------------------------------
(* DeckScannerService.initialize, called once on an instance (by          *)
(* ScannerView.initScanner).  isModelLoaded becomes true only when the     *)
(* database, the model, the labels and the OCR worker all loaded, and the  *)
(* call returns true; a failure of any of them is caught and logged, the   *)
(* field stays false and the call returns false: it never throws.          *)

Initialized ==
  /\ initResult = "none"
  /\ \E ok \in BOOLEAN :
       /\ isModelLoaded' = ok
       /\ initResult' = IF ok THEN "ok" ELSE "failed"
  /\ UNCHANGED << batchActive, processingLock, scanResults, inflight, stores,
                  uuidCount, session, callbacks, log >>

Initialize ==
  /\ Initialized
  /\ UNCHANGED direct

----------------------------------------------------------------------------
(* DeckScannerService.startBatchScanning(onDeckIdentified).  The          *)
(* parameter is not read: the callback is stored nowhere.                  *)

Started ==
  /\ Len(starts) < MaxStarts
  /\ uuidCount' = uuidCount + 1
  /\ scanResults' = ClearedResults
  /\ batchActive' = TRUE
  /\ starts' = Append(starts, uuidv4)
  /\ carried' = carried \cup {scanResults[i].frame : i \in 1..Len(scanResults)}
  /\ UNCHANGED << isModelLoaded, initResult, processingLock, inflight, stores,
                  callbacks, log >>

StartBatchScanning ==
  /\ Started
  /\ UNCHANGED direct

----------------------------------------------------------------------------
(* DeckScannerService.stopBatchScanning.  The value it returns is a         *)
(* function of scanResults and computing it changes no state of the        *)
(* service; SummarySpec below records it.                                  *)

Stopped ==
  /\ batchActive' = FALSE
  /\ UNCHANGED << isModelLoaded, initResult, processingLock, scanResults,
                  inflight, stores, uuidCount, session, callbacks, log >>

StopBatchScanning ==
  /\ Stopped
  /\ UNCHANGED direct

----------------------------------------------------------------------------
(* DeckScannerService.processVideoFrame, up to its first suspension.  The   *)
(* caller passes the sessionId it holds.  processImage throws at once when  *)
(* the scanner is not initialized: the call then waits at "rejected" for    *)
(* its catch and finally blocks, which run after the caller's own code.     *)

Submitted ==
  /\ Len(log) < MaxFrames
  /\ LET frame == Len(log) + 1 IN
       IF ~SessionActive THEN
         /\ log' = Append(log, LogEntry("Inactive", currentSession))
         /\ processingLock' = LockAfterSkip
         /\ UNCHANGED inflight
       ELSE IF ~GateFree THEN
         /\ log' = Append(log, LogEntry("Skipped", currentSession))
         /\ processingLock' = LockAfterSkip
         /\ UNCHANGED inflight
       ELSE
         /\ log' = Append(log, LogEntry("InFlight", currentSession))
         /\ processingLock' = TRUE
         /\ inflight' = inflight \cup
              {NewCall(frame, currentSession,
                       IF isModelLoaded THEN "predict" ELSE "rejected")}
  /\ UNCHANGED << isModelLoaded, initResult, batchActive, scanResults, stores,
                  uuidCount, session, callbacks >>

ProcessVideoFrame ==
  /\ Submitted
  /\ UNCHANGED direct

----------------------------------------------------------------------------
(* The continuations of a suspended processVideoFrame call *)

\* The evaluation or the save threw: catch logs, finally releases the gate.
Throws(c, outcome) ==
  /\ inflight' = inflight \ {c}
  /\ processingLock' = LockAfterThrow
  /\ batchActive' = ActiveAfterCatch
  /\ log' = Ended(c, outcome)
  /\ scanResults' = ResultsAfterCatch(c)
  /\ UNCHANGED << isModelLoaded, initResult, stores, uuidCount,
                  session, callbacks, direct >>

\* The call moves on to its next await.
Moves(c, d) ==
  /\ inflight' = (inflight \ {c}) \cup {d}
  /\ UNCHANGED << service, stores, uuidCount, session, callbacks, direct >>

\* `throw new Error('Scanner not initialized')` reaches processVideoFrame.
RejectedSettles ==
  \E c \in inflight :
    /\ c.pc = "rejected"
    /\ Throws(c, "Error")

\* `await this.model.predict(preprocessed)`.
PredictSettles ==
  \E c \in inflight :
    /\ c.pc = "predict"
    /\ \/ Throws(c, "Error")
       \/ /\ Moves(c, [c EXCEPT !.pc = "data"])
          /\ UNCHANGED log

\* `await predictions.data()`, then the top prediction is taken.
DataSettles ==
  \E c \in inflight :
    /\ c.pc = "data"
    /\ \/ Throws(c, "Error")
       \/ \E resultsArray \in PredictionVectors :
            LET topIdx == getTopPredictionIndex(resultsArray) IN
              /\ Moves(c, [c EXCEPT !.pc = "ocr",
                                    !.deckId = labels[topIdx].id,
                                    !.confidence = resultsArray[topIdx]])
              /\ log' = [log EXCEPT ![c.frame].confidence = resultsArray[topIdx]]

\* `await this.ocrWorker.recognize(imageData)`, then verifyTextResults.
OcrSettles ==
  \E c \in inflight :
    /\ c.pc = "ocr"
    /\ \/ Throws(c, "Error")
       \/ \E text \in OcrTexts :
            LET deckInfo == CHOOSE l \in {labels[i] : i \in 1..Len(labels)} :
                              l.id = c.deckId
                textVerification == verifyTextResults(text, deckInfo)
            IN /\ Moves(c, [c EXCEPT !.pc = "pricing",
                                     !.verificationScore =
                                        textVerification.verificationScore])
               /\ UNCHANGED log

\* Variant: a record updated exactly 24 hours ago is stale.
IsStale_Inclusive(hoursSinceUpdate) == hoursSinceUpdate >= StaleHours

\* `if (hoursSinceUpdate > 24)`
IsStale(hoursSinceUpdate) == hoursSinceUpdate > StaleHours

\* Variant: a lookup that finds no record asks for a refresh.
QueuedOnMiss_Refresh(deckId) == << PricingSyncTask(deckId) >>

\* The tasks queued when the index has no entry: the else branch of the
\* onsuccess handler only builds the default record.
QueuedOnMiss(deckId) == << >>

\* Variant: the found record is withheld while a refresh is requested; the
\* call resolves with the default record.
getPricingData_Withheld(deckId, now) ==
  [pricing |-> DefaultPricing(deckId, now),
   queued |-> << PricingSyncTask(deckId) >>]

\* DatabaseService.getPricingData at time `now`: the record it resolves
\* with and the tasks its onsuccess handler asks queuePricingSyncTask to
\* add to the sync queue (the call is not awaited).
getPricingData(deckId, now) ==
  LET found == {p \in pricingStore : p.deckId = deckId} IN
    IF found # {}
    THEN LET result == CHOOSE p \in found : TRUE
             hoursSinceUpdate == now - result.lastUpdated
         IN [pricing |-> result,
             queued |-> IF IsStale(hoursSinceUpdate)
                        THEN << PricingSyncTask(deckId) >>
                        ELSE << >>]
    ELSE [pricing |-> DefaultPricing(deckId, now),
          queued |-> QueuedOnMiss(deckId)]

\* `await this.dbService.getPricingData(deckInfo.id)`; processImage then
\* returns and processVideoFrame runs on, in the same task, either to
\* `await this.dbService.saveScanRecord(scanRecord)` or to its end.
PricingSettles ==
  \E c \in inflight :
    /\ c.pc = "pricing"
    /\ \/ Throws(c, "Error")
       \/ \E now \in Clock :
            LET got == getPricingData(c.deckId, now)
                d == [c EXCEPT !.buyPrice = got.pricing.buyPrice,
                               !.sellPrice = got.pricing.sellPrice,
                               !.dataSource = got.pricing.dataSource]
            IN /\ pendingAdds' = pendingAdds \o got.queued
               /\ IF AboveThreshold(d.confidence)
                  THEN /\ inflight' = (inflight \ {c}) \cup
                            {[d EXCEPT !.pc = "save", !.recordId = c.frame]}
                       /\ UNCHANGED << processingLock, log >>
                  ELSE /\ inflight' = inflight \ {c}
                       /\ processingLock' = LockAfterReturn
                       /\ log' = Ended(c, "Discarded")
               /\ UNCHANGED << isModelLoaded, initResult, batchActive, scanResults,
                               pricingStore, scanHistory, syncQueue, uuidCount,
                               session,
                               callbacks, direct >>

\* The add request of saveScanRecord settles.  On success its handler
\* calls queueScanHistorySyncTask without awaiting it, which requests the
\* add of the history_sync task, and resolves; processVideoFrame then
\* pushes the result, calls onResult and releases the gate, in the same
\* task.
SaveSettles ==
  \E c \in inflight :
    /\ c.pc = "save"
    /\ \/ Throws(c, "SaveError")
       \/ /\ scanHistory' = scanHistory \cup {ScanRecordOf(c)}
          /\ pendingAdds' = Append(pendingAdds, HistorySyncTask(c.recordId))
          /\ scanResults' = Append(scanResults, ResultOf(c))
          /\ notified' = Append(notified, c.frame)
          /\ processingLock' = LockAfterReturn
          /\ inflight' = inflight \ {c}
          /\ log' = Ended(c, "Accepted")
          /\ UNCHANGED << isModelLoaded, initResult, batchActive, pricingStore,
                          syncQueue, uuidCount, session, identified,
                          direct >>

\* The oldest add request on 'sync_queue' (queuePricingSyncTask,
\* queueScanHistorySyncTask) settles: the task is stored, or the request
\* fails and its promise rejects, which no caller observes.
SyncAddSettles ==
  /\ pendingAdds # << >>
  /\ Head(pendingAdds).type \in TaskTypes
  /\ pendingAdds' = Tail(pendingAdds)
  /\ \/ syncQueue' = Append(syncQueue, Head(pendingAdds))
     \/ UNCHANGED syncQueue
  /\ UNCHANGED << service, inflight, pricingStore, scanHistory, uuidCount,
                  session, callbacks, direct, log >>

----------------------------------------------------------------------------
(* Specifications *)

Next ==
  \/ Initialize
  \/ StartBatchScanning
  \/ StopBatchScanning
  \/ ProcessVideoFrame
  \/ RejectedSettles
  \/ PredictSettles
  \/ DataSettles
  \/ OcrSettles
  \/ PricingSettles
  \/ SaveSettles
  \/ SyncAddSettles

Spec == Init /\ [][Next]_vars

\* Every awaited operation eventually settles.
FairSpec ==
  /\ Spec
  /\ WF_vars(RejectedSettles)
  /\ WF_vars(PredictSettles)
  /\ WF_vars(DataSettles)
  /\ WF_vars(OcrSettles)
  /\ WF_vars(PricingSettles)
  /\ WF_vars(SaveSettles)
  /\ WF_vars(SyncAddSettles)

----------------------------------------------------------------------------
(* stopBatchScanning with the value it returns, on a service that has      *)
(* accumulated some results in an Active session.                          *)

\* The accepted results of a session, one per scanned deck, in the order of
\* the catalog; frame identifies the result.
ScannedDecks ==
  LET Scanned(frame, buyPrice, sellPrice, dataSource) ==
        [frame |-> frame, deckId |-> "d1", confidence |-> 76,
         verificationScore |-> 3,
         pricing |-> [buyPrice |-> buyPrice, sellPrice |-> sellPrice,
                      dataSource |-> dataSource]]
  IN << Scanned(1, 100, 101, "initial"), Scanned(2, 100, 121, "initial"),
        Scanned(3, 400, 429, "initial"), Scanned(4, 200, 1200, "initial"),
        Scanned(5, 400, 1400, "initial"), Scanned(6, 0, 0, "default") >>

\* The accumulators of at most MaxResults of these results, in any order of
\* acceptance.
Accumulators ==
  UNION { { [i \in 1..n |-> ScannedDecks[order[i]]] :
              order \in { o \in [1..n -> 1..Len(ScannedDecks)] :
                            \A i, j \in 1..n : i # j => o[i] # o[j] } } :
          n \in 0..MaxResults }

\* The same results, accepted in the order of their frames.
InFrameOrder(results) ==
  [i \in 1..Len(results) |->
     CHOOSE r \in {results[j] : j \in 1..Len(results)} :
       Cardinality({j \in 1..Len(results) :
                      results[j].frame < r.frame}) = i - 1]

SummaryInit ==
  /\ isModelLoaded = TRUE
  /\ initResult = "ok"
  /\ batchActive = TRUE
  /\ processingLock = FALSE
  /\ scanResults \in Accumulators
  /\ inflight = {}
  /\ pricingStore = InitialPricing
  /\ scanHistory = {}
  /\ syncQueue = << >>
  /\ pendingAdds = << >>
  /\ uuidCount = 1
  /\ starts = << 1 >>
  /\ carried = {}
  /\ notified = << >>
  /\ identified = << >>
  /\ log = << >>
  /\ returned = << >>
  /\ returnedInFrameOrder = << >>
  /\ lookups = << >>
  /\ decksStore = InitialDecks
  /\ deckTx = Committed(InitialDecks)
  /\ pricingTx = Committed(InitialPricing)
  /\ loadPc = "done"
  /\ drains = << >>
  /\ saves = << >>
  /\ images = << >>
  /\ verified = << >>
  /\ view = NewView(0)

\* stopBatchScanning returns { results, summary }.
StopBatchScanningReturns ==
  /\ returned = << >>
  /\ Stopped
  /\ returned' = << [results |-> scanResults,
                     summary |-> BatchScanSummary(scanResults)] >>
  /\ returnedInFrameOrder' =
       << [results |-> InFrameOrder(scanResults),
           summary |-> BatchScanSummary(InFrameOrder(scanResults))] >>
  /\ UNCHANGED << lookups, load, sync, calls >>

SummaryNext == StopBatchScanningReturns

SummarySpec == SummaryInit /\ [][SummaryNext]_vars

----------------------------------------------------------------------------
(* DatabaseService.getPricingData called on the DatabaseService alone, at  *)
(* most MaxLookups times, and the sync_queue adds it requests.             *)

GetPricingData ==
  /\ Len(lookups) < MaxLookups
  /\ \E deckId \in {labels[i].id : i \in 1..Len(labels)}, now \in Clock :
       LET got == getPricingData(deckId, now) IN
         /\ pendingAdds' = pendingAdds \o got.queued
         /\ lookups' = Append(lookups, [deckId |-> deckId, now |-> now,
                                        pricing |-> got.pricing])
  /\ UNCHANGED << service, inflight, pricingStore, scanHistory, syncQueue,
                  uuidCount, session, callbacks, summaries, load, sync, calls, log >>

LookupNext ==
  \/ GetPricingData
  \/ SyncAddSettles

LookupSpec == Init /\ [][LookupNext]_vars

----------------------------------------------------------------------------
(* DatabaseService.initialize creating the database (DB_VERSION is 1, so   *)
(* onupgradeneeded runs once, on empty stores) and loadInitialData filling *)
(* the decks and pricing stores from data/initial_data.json.               *)

\* The deck entries and pricing records a data file can hold.
DeckEntries ==
  { [deckId |-> d, visualHash |-> h] :
      d \in {"d1", "d2"}, h \in {"h1", "h2"} }

PricingEntries ==
  { [id |-> i, deckId |-> d, buyPrice |-> 200, sellPrice |-> 1200,
     lastUpdated |-> 0, dataSource |-> "initial"] :
      i \in {"p1", "p2"}, d \in {"d1", "d2"} }

SeqsUpTo(S, n) == UNION { [1..k -> S] : k \in 0..n }

\* data/initial_data.json: { decks: [...], pricing: [...] }.
DataFiles ==
  [decks : SeqsUpTo(DeckEntries, MaxLoad),
   pricing : SeqsUpTo(PricingEntries, MaxLoad)]

\* 'decks': keyPath deckId, unique index visualHash.
DeckConflicts(store, deck) ==
  { e \in store : \/ e.deckId = deck.deckId
                  \/ e.visualHash = deck.visualHash }

\* 'pricing': keyPath id, unique index deckId.
PricingConflicts(store, pricing) ==
  { e \in store : \/ e.id = pricing.id
                  \/ e.deckId = pricing.deckId }

LoadInit ==
  /\ isModelLoaded = FALSE
  /\ initResult = "none"
  /\ batchActive = FALSE
  /\ processingLock = FALSE
  /\ scanResults = << >>
  /\ inflight = {}
  /\ pricingStore = {}
  /\ scanHistory = {}
  /\ syncQueue = << >>
  /\ pendingAdds = << >>
  /\ uuidCount = 0
  /\ starts = << >>
  /\ carried = {}
  /\ notified = << >>
  /\ identified = << >>
  /\ log = << >>
  /\ returned = << >>
  /\ returnedInFrameOrder = << >>
  /\ lookups = << >>
  /\ decksStore = {}
  /\ deckTx = NoTransaction
  /\ pricingTx = NoTransaction
  /\ loadPc = "awaiting"
  /\ drains = << >>
  /\ saves = << >>
  /\ images = << >>
  /\ verified = << >>
  /\ view = NewView(0)

\* What a step of the load leaves alone.
LoadOnly ==
  UNCHANGED << service, inflight, scanHistory, syncQueue, pendingAdds,
               uuidCount, session, callbacks, summaries, lookups, sync, calls,
               log >>

\* The fetch and response.json() resolved: one transaction per store, an add
\* request per entry, none with a handler.
LoadInitialData ==
  /\ loadPc = "awaiting"
  /\ \E data \in DataFiles :
       /\ deckTx' = Active(data.decks)
       /\ pricingTx' = Active(data.pricing)
  /\ loadPc' = "placed"
  /\ UNCHANGED << decksStore, pricingStore >>
  /\ LoadOnly

\* The fetch, response.json() or db.transaction threw: caught and logged,
\* nothing is written.
LoadFails ==
  /\ loadPc = "awaiting"
  /\ loadPc' = "caught"
  /\ UNCHANGED << decksStore, pricingStore, deckTx, pricingTx >>
  /\ LoadOnly

\* The transaction after its next add request is processed.  A record whose
\* key or unique index value is already in the store fails the request with
\* a ConstraintError; the error event has no handler, so it is not
\* cancelled and the transaction aborts.
TxAfterAdd(tx, conflicts) ==
  IF conflicts # {}
    THEN Aborted("ConstraintError")
    ELSE [tx EXCEPT !.requests = Tail(tx.requests),
                    !.added = tx.added \cup {Head(tx.requests)}]

\* The store after that request: the record is added, or the abort rolls
\* back every write of the transaction.
StoreAfterAdd(store, tx, conflicts) ==
  IF conflicts # {}
    THEN store \ tx.added
    ELSE store \cup {Head(tx.requests)}

DeckAddSettles ==
  /\ deckTx.state = "active"
  /\ deckTx.requests # << >>
  /\ LET conflicts == DeckConflicts(decksStore, Head(deckTx.requests)) IN
       /\ decksStore' = StoreAfterAdd(decksStore, deckTx, conflicts)
       /\ deckTx' = TxAfterAdd(deckTx, conflicts)
  /\ UNCHANGED << pricingStore, pricingTx, loadPc >>
  /\ LoadOnly

PricingAddSettles ==
  /\ pricingTx.state = "active"
  /\ pricingTx.requests # << >>
  /\ LET conflicts ==
           PricingConflicts(pricingStore, Head(pricingTx.requests)) IN
       /\ pricingStore' = StoreAfterAdd(pricingStore, pricingTx, conflicts)
       /\ pricingTx' = TxAfterAdd(pricingTx, conflicts)
  /\ UNCHANGED << decksStore, deckTx, loadPc >>
  /\ LoadOnly

\* A transaction with no request left commits.
DeckTxCommits ==
  /\ deckTx.state = "active"
  /\ deckTx.requests = << >>
  /\ deckTx' = Committed(deckTx.added)
  /\ UNCHANGED << decksStore, pricingStore, pricingTx, loadPc >>
  /\ LoadOnly

PricingTxCommits ==
  /\ pricingTx.state = "active"
  /\ pricingTx.requests = << >>
  /\ pricingTx' = Committed(pricingTx.added)
  /\ UNCHANGED << decksStore, pricingStore, deckTx, loadPc >>
  /\ LoadOnly

LoadNext ==
  \/ LoadInitialData
  \/ LoadFails
  \/ DeckAddSettles
  \/ PricingAddSettles
  \/ DeckTxCommits
  \/ PricingTxCommits

LoadSpec == LoadInit /\ [][LoadNext]_vars

----------------------------------------------------------------------------
(* Properties *)

Frames == 1..Len(log)

\* A processVideoFrame call is issued in this step.
Submits == Len(log') > Len(log)

\* startBatchScanning is called in this step.
StartsSession == Len(starts') > Len(starts)

\* The call for frame f ends in this step with the given outcome.
EndsWith(f, outcome) ==
  log[f].outcome = "InFlight" /\ log'[f].outcome = outcome

ResultFrames == {scanResults[i].frame : i \in 1..Len(scanResults)}

NotifiedFrames == {notified[i] : i \in 1..Len(notified)}

\* C1: in every reachable state at most one processVideoFrame call is
\* between acquiring the gate and releasing it, and the gate is held
\* exactly while such a call exists.
C1_AtMostOneInFlight ==
  /\ Cardinality(inflight) <= 1
  /\ processingLock <=> (inflight # {})

\* C1 witness: a call is suspended inside the evaluation and a later call
\* was issued meanwhile.
C1_Witness ==
  \E c \in inflight :
    /\ c.pc = "ocr"
    /\ \E f \in Frames : f > c.frame

\* C2 (as claimed): a call that completes while the session is not Active
\* persists no ScanRecord, appends nothing to scanResults and does not
\* notify the caller.
C2_LateResultIgnored ==
  [][(~batchActive /\ inflight' # inflight) =>
       UNCHANGED << scanResults, scanHistory, notified >>]_vars

\* C3 (as claimed): every result in the accumulator of the active session
\* came from a frame submitted during that session.
C3_ResultsOfCurrentSession ==
  batchActive =>
    \A i \in 1..Len(scanResults) :
      log[scanResults[i].frame].sid = currentSession

\* C4: the gate is held exactly while an admitted call has not completed;
\* when every awaited operation settles a held gate is eventually free,
\* whichever way the call ends; and a frame submitted to an Active session
\* whose gate is free is admitted.
C4_GateReleased ==
  /\ [](processingLock <=> (inflight # {}))
  /\ processingLock ~> ~processingLock
  /\ [][(Submits /\ batchActive /\ ~processingLock) =>
          (log'[Len(log')].outcome = "InFlight" /\ processingLock')]_vars

\* C4 witness: persistence rejected for one frame, the gate was released
\* and a later frame of the session was admitted.
C4_Witness ==
  \E f, g \in Frames :
    /\ f < g
    /\ log[f].outcome = "SaveError"
    /\ log[g].outcome = "InFlight"
    /\ log[g].sid = log[f].sid

\* C5: a call issued on an Active session while an evaluation is in flight
\* is skipped: it starts no evaluation, leaves the single evaluation in
\* flight, keeps the gate held and changes neither the accumulator nor the
\* stores.
C5_SecondCallSkipped ==
  [][(Submits /\ batchActive /\ processingLock) =>
       /\ log'[Len(log')].outcome = "Skipped"
       /\ Cardinality(inflight') = 1
       /\ processingLock'
       /\ UNCHANGED << inflight, service, stores, uuidCount, notified >>]_vars

\* C5 witness: a call was skipped while the first call of the same session
\* is still suspended, the gate held.
C5_Witness ==
  \E c \in inflight :
    \E f \in Frames :
      /\ f > c.frame
      /\ log[f].outcome = "Skipped"
      /\ log[f].sid = c.sessionId
      /\ processingLock
      /\ batchActive

\* C6: a call made while the session is not Active (before the first start,
\* or after a stop) starts no evaluation, does not touch the gate and
\* changes no state of the service or of the stores.
C6_NotAdmittedWhenInactive ==
  [][(Submits /\ ~batchActive) =>
       /\ log'[Len(log')].outcome = "Inactive"
       /\ UNCHANGED << inflight, service, stores, uuidCount, session,
                       notified >>]_vars

\* C6 witness: one call was made before the first start and one after a
\* stop.
C6_Witness ==
  /\ ~batchActive
  /\ \E f, g \in Frames :
       /\ log[f].outcome = "Inactive" /\ log[f].sid = 0
       /\ log[g].outcome = "Inactive" /\ log[g].sid # 0

\* C7: results at or below the threshold are never recorded or reported,
\* and a frame whose persistence succeeded and whose confidence is above
\* the threshold is appended to the accumulator exactly once, with one
\* ScanRecord and one notification.
C7_Threshold ==
  /\ [](\A f \in Frames :
          /\ (log[f].outcome = "Discarded") => log[f].confidence <= Threshold
          /\ (log[f].outcome = "Accepted") => log[f].confidence > Threshold
          /\ (log[f].confidence <= Threshold) =>
               /\ f \notin ResultFrames
               /\ f \notin NotifiedFrames
               /\ ~\E r \in scanHistory : r.frame = f
          /\ Cardinality({i \in 1..Len(scanResults) : scanResults[i].frame = f}) <= 1
          /\ Cardinality({i \in 1..Len(notified) : notified[i] = f}) <= 1
          /\ Cardinality({r \in scanHistory : r.frame = f}) <= 1)
  /\ [](\A i \in 1..Len(scanResults) : scanResults[i].confidence > Threshold)
  /\ [](\A r \in scanHistory : r.confidence > Threshold)
  /\ [][\A c \in inflight :
          (c.pc = "save" /\ c \notin inflight' /\ ~EndsWith(c.frame, "SaveError")) =>
            /\ c.confidence > Threshold
            /\ scanResults' = Append(scanResults, ResultOf(c))
            /\ scanHistory' = scanHistory \cup {ScanRecordOf(c)}
            /\ ScanRecordOf(c) \notin scanHistory
            /\ notified' = Append(notified, c.frame)]_vars
  /\ [][\A c \in inflight :
          (c.pc = "pricing" /\ c.confidence > Threshold /\ c \notin inflight'
             /\ ~EndsWith(c.frame, "Error")) =>
            \E d \in inflight' : d.frame = c.frame /\ d.pc = "save"]_vars

\* C7 witness: of two evaluated frames of one session, the one at exactly
\* 0.75 was discarded and the one above it is in the accumulator.
C7_Witness ==
  \E f, g \in Frames :
    /\ log[f].outcome = "Discarded" /\ log[f].confidence = Threshold
    /\ log[g].outcome = "Accepted" /\ g \in ResultFrames
    /\ log[g].sid = log[f].sid

\* C8 (as claimed): startBatchScanning on an Active session is rejected: it
\* leaves the session state and the accumulated results unchanged and
\* begins no new session.
C8_StartRejectedWhenActive ==
  [][(StartsSession /\ batchActive) =>
       (UNCHANGED << batchActive, scanResults >>
          /\ currentSession' = currentSession)]_vars

\* C9: startBatchScanning on a session that is not Active leaves it Active
\* with an empty accumulator and returns a sessionId never returned before;
\* no result that an earlier session had accumulated is in the accumulator
\* afterwards.
C9_FreshSession ==
  /\ [][(StartsSession /\ ~batchActive) =>
          /\ batchActive'
          /\ scanResults' = << >>
          /\ currentSession' \notin returnedIds
          /\ currentSession' # 0]_vars
  /\ [](ResultFrames \cap carried = {})

\* C9 witness: the first session accumulated a result and was stopped (a
\* frame submitted to it afterwards found it not Active); the second
\* session has been started and its accumulator is empty.
C9_Witness ==
  /\ Len(starts) = 2
  /\ batchActive
  /\ carried # {}
  /\ scanResults = << >>
  /\ \E f \in Frames : log[f].outcome = "Inactive" /\ log[f].sid = starts[1]

\* C10: a call whose evaluation throws leaves batchActive and the
\* accumulator as they were, writes no ScanRecord and no sync task,
\* notifies nobody and releases the gate; the next frame submitted to the
\* Active session is admitted.
C10_FailureKeepsSession ==
  /\ [][\A f \in Frames :
          EndsWith(f, "Error") =>
            /\ batchActive' = batchActive
            /\ ~processingLock'
            /\ UNCHANGED << scanResults, scanHistory, syncQueue, pendingAdds,
                            notified >>]_vars
  /\ [](\A f \in Frames :
          log[f].outcome = "Error" =>
            /\ f \notin ResultFrames
            /\ f \notin NotifiedFrames
            /\ ~\E r \in scanHistory : r.frame = f)
  /\ [][(Submits /\ batchActive /\ Len(log) > 0
           /\ log[Len(log)].outcome = "Error") =>
          log'[Len(log')].outcome = "InFlight"]_vars

\* C10 witness: in an Active session one frame's evaluation threw and the
\* next frame was admitted, evaluated and accepted.
C10_Witness ==
  /\ batchActive
  /\ \E f \in Frames :
       /\ f + 1 \in Frames
       /\ log[f].outcome = "Error"
       /\ log[f + 1].outcome = "Accepted"
       /\ log[f + 1].sid = log[f].sid

\* C11 (as claimed): once initialize() has failed, startBatchScanning puts
\* no session into the Active state.
C11_FailedInitBlocksStart ==
  [][(initResult = "failed" /\ StartsSession) => ~batchActive']_vars

\* The tasks stored in the sync queue.
QueuedTasks == {syncQueue[i] : i \in 1..Len(syncQueue)}

\* C12 (as claimed): in the step that notifies the caller of a frame's
\* result, the frame's ScanRecord is in the scan history, the history_sync
\* task referencing that record is stored in the sync queue, and the result
\* is in the accumulator.
C12_CommittedBeforeNotify ==
  [][\A f \in NotifiedFrames' \ NotifiedFrames :
       /\ f \in ResultFrames'
       /\ \E r \in scanHistory' :
            /\ r.frame = f
            /\ HistorySyncTask(r.id) \in QueuedTasks']_vars

\* C13 (as claimed): in the step that appends a frame's result to the
\* accumulator, the callback registered with startBatchScanning has been
\* invoked exactly once with that result.
C13_RegisteredCallbackInvoked ==
  [][\A f \in ResultFrames' \ ResultFrames :
       Cardinality({i \in 1..Len(identified') : identified'[i] = f}) = 1]_vars

\* The ScanRecords stored with a sessionId, in the order of their frames,
\* each as a result priced by its pricingSnapshot.
Replayed(sid) ==
  LET records == {r \in scanHistory : r.sessionId = sid} IN
    [i \in 1..Cardinality(records) |->
       LET r == CHOOSE r \in records :
                  Cardinality({q \in records : q.frame < r.frame}) = i - 1
       IN [frame |-> r.frame, pricing |-> r.pricingSnapshot]]

\* C14 (as claimed): when stopBatchScanning ends a session, totalDecks,
\* totalBuyValue, totalSellValue and totalProfit of the summary it returns
\* equal those computed over the ScanRecords stored with the session's
\* sessionId.
C14_SummaryReplayable ==
  [][(batchActive /\ ~batchActive') =>
       \A k \in {"totalDecks", "totalBuyValue", "totalSellValue",
                 "totalProfit"} :
         BatchScanSummary(scanResults)[k] =
           BatchScanSummary(Replayed(currentSession))[k]]_vars

\* C15: for a non-empty accumulator the mostProfitable that
\* stopBatchScanning returns is a result of the accumulator, no result has
\* a greater sellPrice - buyPrice, and every result accepted before it has
\* a smaller one; for an empty accumulator it is null.
C15_MostProfitable ==
  \A n \in 1..Len(returned) :
    LET ps == Priced(returned[n].results)
        best == returned[n].summary.mostProfitable
    IN IF Len(ps) = 0 THEN best = Null
       ELSE \E a \in 1..Len(ps) :
              /\ best = ps[a].r
              /\ \A b \in 1..Len(ps) :
                   ~NumGreater(Profit(ps[b]), Profit(ps[a]))
              /\ \A b \in 1..(a - 1) :
                   NumGreater(Profit(ps[a]), Profit(ps[b]))

\* C15 witness: of three accumulated results the second and the third have
\* the same, maximal, profit and the second was returned.
C15_Witness ==
  /\ Len(returned) = 1
  /\ returned[1].results =
       << ScannedDecks[1], ScannedDecks[5], ScannedDecks[4] >>
  /\ returned[1].summary.mostProfitable = ScannedDecks[5]

\* C16 (as claimed): the totals and the average margin that
\* stopBatchScanning returns for an accumulator equal those it returns for
\* the same results accepted in the order of their frames; so they are the
\* same for every order of acceptance.
C16_OrderIndependent ==
  \A n \in 1..Len(returned) :
    \A k \in {"totalDecks", "totalBuyValue", "totalSellValue", "totalProfit",
              "averageMargin"} :
      returned[n].summary[k] = returnedInFrameOrder[n].summary[k]

\* C17: stopBatchScanning on an empty accumulator returns totalDecks 0,
\* averageMargin '0%' and mostProfitable null, and the session is not
\* Active afterwards.
C17_EmptySession ==
  \A n \in 1..Len(returned) :
    returned[n].results = << >> =>
      /\ returned[n].summary.totalDecks = 0
      /\ returned[n].summary.averageMargin =
           [text |-> [k |-> "num", s |-> 0, n |-> 0, digits |-> 0],
            suffix |-> "%"]
      /\ returned[n].summary.mostProfitable = Null
      /\ ~batchActive

\* C17 witness: stopBatchScanning has returned for an Active session that
\* had accumulated nothing.
C17_Witness ==
  /\ Len(returned) = 1
  /\ returned[1].results = << >>
  /\ scanResults = << >>

\* C18: a pricing lookup that succeeds and finds no record for the deck
\* resolves with buyPrice 0, sellPrice 0 and dataSource 'default', writes
\* nothing to the pricing store and requests no sync task.
C18_DefaultOnMiss ==
  [][\A c \in inflight :
       (/\ c.pc = "pricing"
        /\ c \notin inflight'
        /\ ~EndsWith(c.frame, "Error")
        /\ ~\E p \in pricingStore : p.deckId = c.deckId) =>
         /\ UNCHANGED << pricingStore, syncQueue, pendingAdds >>
         /\ \/ EndsWith(c.frame, "Discarded")
            \/ \E d \in inflight' :
                 /\ d.frame = c.frame
                 /\ d.buyPrice = 0
                 /\ d.sellPrice = 0
                 /\ d.dataSource = "default"]_vars

\* C18 witness: a frame identified as a deck without pricing record has
\* passed its lookup and carries the default pricing, and no sync task was
\* requested.
C18_Witness ==
  \E c \in inflight :
    /\ c.pc = "save"
    /\ c.dataSource = "default"
    /\ ~\E p \in pricingStore : p.deckId = c.deckId
    /\ pendingAdds = << >>
    /\ syncQueue = << >>

\* The pricing_sync tasks for a deck whose add was requested and is pending
\* or stored.
PricingTasks(deckId) ==
  LET tasks == syncQueue \o pendingAdds IN
    {i \in 1..Len(tasks) : tasks[i] = PricingSyncTask(deckId)}

\* The lookups that found a record of the deck updated more than 24 hours
\* before.
StaleLookups(deckId) ==
  {i \in 1..Len(lookups) :
     /\ lookups[i].deckId = deckId
     /\ \E p \in pricingStore :
          p.deckId = deckId /\ lookups[i].now - p.lastUpdated > StaleHours}

\* C19: a getPricingData call that finds a record updated more than 24
\* hours before requests the add of exactly one pending pricing_sync task
\* for the deck, whatever tasks were requested before, and resolves with
\* the record; a call that finds a record updated 24 hours before or less
\* requests none.  A requested add that succeeds stores exactly that task,
\* so the tasks of a deck never outnumber its stale lookups.
C19_OneRefreshPerStaleLookup ==
  /\ [][(Len(lookups') > Len(lookups)) =>
          LET l == lookups'[Len(lookups')] IN
            \A p \in pricingStore :
              p.deckId = l.deckId =>
                /\ l.pricing = p
                /\ syncQueue' = syncQueue
                /\ IF l.now - p.lastUpdated > StaleHours
                   THEN pendingAdds' =
                          Append(pendingAdds, PricingSyncTask(l.deckId))
                   ELSE pendingAdds' = pendingAdds]_vars
  /\ [][(Len(pendingAdds') < Len(pendingAdds)) =>
          /\ pendingAdds' = Tail(pendingAdds)
          /\ syncQueue' \in {syncQueue, Append(syncQueue, Head(pendingAdds))}]_vars
  /\ [](\A i \in 1..Len(labels) :
          Cardinality(PricingTasks(labels[i].id)) <=
            Cardinality(StaleLookups(labels[i].id)))

\* C19 witness: of three lookups of the same deck two found its record 25
\* hours old and one found it 24 hours old, and exactly two pricing_sync
\* tasks for the deck are stored.
C19_Witness ==
  /\ Len(lookups) = 3
  /\ \A i \in 1..3 : lookups[i].deckId = "d1"
  /\ Cardinality(StaleLookups("d1")) = 2
  /\ pendingAdds = << >>
  /\ syncQueue = << PricingSyncTask("d1"), PricingSyncTask("d1") >>

\* The add requests that settle in this step with a record that breaks a
\* uniqueness of its store: the store, the transaction and the record.
DeckWriteRejected ==
  /\ deckTx.state = "active"
  /\ deckTx.requests # << >>
  /\ DeckConflicts(decksStore, Head(deckTx.requests)) # {}
  /\ deckTx' # deckTx

PricingWriteRejected ==
  /\ pricingTx.state = "active"
  /\ pricingTx.requests # << >>
  /\ PricingConflicts(pricingStore, Head(pricingTx.requests)) # {}
  /\ pricingTx' # pricingTx

\* C20: the pricing store holds at most one record per deckId and the decks
\* store at most one entry per visualHash, always; and a write that would
\* break either uniqueness fails with a ConstraintError and leaves the
\* existing record in the store, unchanged.
\* Fails: the failed request aborts its transaction, and the existing
\* record, written by the same transaction, is rolled back with it.
C20_UniqueAndExistingKept ==
  /\ [](/\ \A a, b \in pricingStore : a.deckId = b.deckId => a = b
        /\ \A a, b \in decksStore :
             a.visualHash = b.visualHash => a = b)
  /\ [][/\ DeckWriteRejected =>
             /\ deckTx'.error = "ConstraintError"
             /\ DeckConflicts(decksStore, Head(deckTx.requests))
                  \subseteq decksStore'
        /\ PricingWriteRejected =>
             /\ pricingTx'.error = "ConstraintError"
             /\ PricingConflicts(pricingStore, Head(pricingTx.requests))
                  \subseteq pricingStore']_vars

----------------------------------------------------------------------------
(* The service worker's background sync (syncData) next to the page's       *)
(* DatabaseService, which is called directly: getPricingData and           *)
(* saveScanRecord request adds on 'sync_queue' while syncData reads and     *)
(* clears it.  The transactions on 'sync_queue' all have the same scope    *)
(* and run in the order they were created.                                 *)

MaxDrains == 2      \* sync events delivered to the service worker
MaxQueued == 2      \* calls of the page that request an add on 'sync_queue'

\* The requests syncData places on 'sync_queue'.
GetAllRequest(i) == [type |-> "getAll", drain |-> i]
ClearRequest(i) == [type |-> "clear", drain |-> i]

\* A syncData run: where it is suspended, the tasks its getAll returned
\* (each one is passed to console.log), the tasks its clear removed and
\* the value it returned.
NewDrain ==
  [pc |-> "open", tasks |-> << >>, cleared |-> << >>, result |-> "none"]

\* The number of records the runs before the i-th have cleared, and the
\* records of 'sync_queue' as getAll returns them: each with the key the
\* store's generator gave it (keyPath 'id', autoIncrement; clear does not
\* reset the generator).
RECURSIVE ClearedBefore(_)
ClearedBefore(i) ==
  IF i = 1 THEN 0 ELSE ClearedBefore(i - 1) + Len(drains[i - 1].cleared)

Stored ==
  [k \in 1..Len(syncQueue) |->
     [id |-> ClearedBefore(Len(drains) + 1) + k, task |-> syncQueue[k]]]

\* catch: `console.error('Sync failed:', error); return false`
Failed(i) == [drains EXCEPT ![i].pc = "done", ![i].result = "false"]

\* The 'sync' event with tag 'sync-data': event.waitUntil(syncData()).
Sync ==
  /\ Len(drains) < MaxDrains
  /\ drains' = Append(drains, NewDrain)
  /\ UNCHANGED << service, inflight, stores, uuidCount, session, callbacks,
                  summaries, lookups, load, saves, calls, log >>

\* `await` of indexedDB.open settles; on success the readonly transaction
\* is created and getAll requested.
OpenSettles ==
  \E i \in 1..Len(drains) :
    /\ drains[i].pc = "open"
    /\ \/ /\ drains' = Failed(i)
          /\ UNCHANGED pendingAdds
       \/ /\ drains' = [drains EXCEPT ![i].pc = "getAll"]
          /\ pendingAdds' = Append(pendingAdds, GetAllRequest(i))
    /\ UNCHANGED << service, inflight, pricingStore, scanHistory, syncQueue,
                    uuidCount, session, callbacks, summaries, lookups, load,
                    saves, calls, log >>

\* `await` of store.getAll() settles; on success every task read is
\* logged, the readwrite transaction is created and clear requested.
GetAllSettles ==
  /\ pendingAdds # << >>
  /\ Head(pendingAdds).type = "getAll"
  /\ LET i == Head(pendingAdds).drain IN
       \/ /\ drains' = Failed(i)
          /\ pendingAdds' = Tail(pendingAdds)
       \/ /\ drains' = [drains EXCEPT ![i].pc = "clear",
                                      ![i].tasks = Stored]
          /\ pendingAdds' = Append(Tail(pendingAdds), ClearRequest(i))
  /\ UNCHANGED << service, inflight, pricingStore, scanHistory, syncQueue,
                  uuidCount, session, callbacks, summaries, lookups, load,
                  saves, calls, log >>

\* `await` of clearStore.clear() settles: the store is emptied and syncData
\* returns true, or the request fails.
ClearSettles ==
  /\ pendingAdds # << >>
  /\ Head(pendingAdds).type = "clear"
  /\ pendingAdds' = Tail(pendingAdds)
  /\ LET i == Head(pendingAdds).drain IN
       \/ /\ drains' = Failed(i)
          /\ UNCHANGED syncQueue
       \/ /\ drains' = [drains EXCEPT ![i].pc = "done",
                                      ![i].cleared = Stored,
                                      ![i].result = "true"]
          /\ syncQueue' = << >>
  /\ UNCHANGED << service, inflight, pricingStore, scanHistory, uuidCount,
                  session, callbacks, summaries, lookups, load, saves, calls, log >>

\* The scanRecord of the n-th direct saveScanRecord call.
DirectRecord(n) ==
  ScanRecordOf([NewCall(n, 1, "save") EXCEPT !.deckId = labels[1].id,
                                             !.confidence = Threshold + 1,
                                             !.recordId = n])

\* DatabaseService.saveScanRecord(scanRecord): a readwrite transaction on
\* 'scan_history' with one add request.
SaveScanRecord ==
  /\ Len(lookups) + Len(saves) < MaxQueued
  /\ saves' = Append(saves, [record |-> DirectRecord(Len(saves) + 1),
                             tx |-> "active", promise |-> "pending"])
  /\ UNCHANGED << service, inflight, stores, uuidCount, session, callbacks,
                  summaries, lookups, load, drains, calls, log >>

\* The add request settles.  onsuccess calls queueScanHistorySyncTask, which
\* creates its own transaction on 'sync_queue', and resolves; the
\* transaction on 'scan_history' has then no request left and starts to
\* commit.  onerror rejects, and the unhandled error aborts the transaction.
HistoryAddSettles ==
  \E i \in 1..Len(saves) :
    /\ saves[i].tx = "active"
    /\ \/ /\ saves' = [saves EXCEPT ![i].tx = "committing",
                                    ![i].promise = "resolved"]
          /\ pendingAdds' =
               Append(pendingAdds, HistorySyncTask(saves[i].record.id))
       \/ /\ saves' = [saves EXCEPT ![i].tx = "aborted",
                                    ![i].promise = "rejected"]
          /\ UNCHANGED pendingAdds
    /\ UNCHANGED << service, inflight, pricingStore, scanHistory, syncQueue,
                    uuidCount, session, callbacks, summaries, lookups, load,
                    drains, calls, log >>

\* The transaction on 'scan_history' commits, which makes its record
\* durable, or fails to write and aborts.
HistoryTxCommits ==
  \E i \in 1..Len(saves) :
    /\ saves[i].tx = "committing"
    /\ \/ /\ saves' = [saves EXCEPT ![i].tx = "committed"]
          /\ scanHistory' = scanHistory \cup {saves[i].record}
       \/ /\ saves' = [saves EXCEPT ![i].tx = "aborted"]
          /\ UNCHANGED scanHistory
    /\ UNCHANGED << service, inflight, pricingStore, syncQueue, pendingAdds,
                    uuidCount, session, callbacks, summaries, lookups, load,
                    drains, calls, log >>

\* What a crash leaves of a saveScanRecord call and of a syncData run.
Interrupted(save) ==
  IF save.tx \in {"active", "committing"}
  THEN [save EXCEPT !.tx = "aborted"] ELSE save

Killed(drain) ==
  IF drain.pc # "done" THEN [drain EXCEPT !.pc = "done"] ELSE drain

\* The browser is killed: the stores keep what was committed, every request
\* and transaction still under way is lost.
Crash ==
  /\ \/ pendingAdds # << >>
     \/ \E i \in 1..Len(saves) : saves[i].tx \in {"active", "committing"}
  /\ pendingAdds' = << >>
  /\ saves' = [i \in 1..Len(saves) |-> Interrupted(saves[i])]
  /\ drains' = [i \in 1..Len(drains) |-> Killed(drains[i])]
  /\ UNCHANGED << service, inflight, pricingStore, scanHistory, syncQueue,
                  uuidCount, session, callbacks, summaries, lookups, load,
                  calls, log >>

\* getPricingData finds a stale record and asks for its refresh.
StaleLookup ==
  /\ Len(lookups) + Len(saves) < MaxQueued
  /\ GetPricingData
  /\ pendingAdds' # pendingAdds

SyncNext ==
  \/ Sync
  \/ OpenSettles
  \/ GetAllSettles
  \/ ClearSettles
  \/ StaleLookup
  \/ SaveScanRecord
  \/ HistoryAddSettles
  \/ SyncAddSettles

\* The commit of a transaction on 'scan_history' leaves 'sync_queue' alone:
\* SaveSpec follows it.
SyncSpec == Init /\ [][SyncNext]_vars

\* saveScanRecord with the commit of its transactions, and a crash.
SaveNext ==
  \/ SaveScanRecord
  \/ HistoryAddSettles
  \/ HistoryTxCommits
  \/ SyncAddSettles
  \/ Crash

SaveSpec == Init /\ [][SaveNext]_vars

----------------------------------------------------------------------------
(* Properties of the background sync *)

\* The syncData runs that have not returned yet.
InFlightDrains == {i \in 1..Len(drains) : drains[i].pc # "done"}

\* The records a run read (and passed to console.log), and those it removed.
Dispatched(i) == {drains[i].tasks[k] : k \in 1..Len(drains[i].tasks)}
Removed(i) == {drains[i].cleared[k] : k \in 1..Len(drains[i].cleared)}

\* C21: a syncData run handles the tasks in the order they were enqueued
\* (ascending key), removes a task only after it has dispatched it, and
\* removes nothing when it fails.
C21_DrainInOrderRemovesDispatched ==
  \A i \in 1..Len(drains) :
    /\ \A k \in 1..(Len(drains[i].tasks) - 1) :
         drains[i].tasks[k].id < drains[i].tasks[k + 1].id
    /\ drains[i].result = "false" => drains[i].cleared = << >>
    /\ Removed(i) \subseteq Dispatched(i)

\* C22: at most one syncData run is in flight at any time, and no task is
\* dispatched by two runs.
C22_OneDrainInFlight ==
  /\ Cardinality(InFlightDrains) <= 1
  /\ \A i, j \in 1..Len(drains) :
       i # j => Dispatched(i) \cap Dispatched(j) = {}

\* C26: in every step, each record that leaves 'sync_queue' was among the
\* tasks some syncData run had read and dispatched.
C26_NoTaskRemovedUndispatched ==
  [][\A k \in 1..Len(Stored) :
       (\A m \in 1..Len(syncQueue') : Stored'[m].id # Stored[k].id)
         => \E i \in 1..Len(drains) : Stored[k] \in Dispatched(i)]_vars

----------------------------------------------------------------------------
(* DeckScannerService.processImage called directly, with the tensors it    *)
(* allocates.  Every tf operation returns a new tensor, which lives until  *)
(* its dispose() is called: nothing here runs inside tf.tidy.              *)

MaxImages == 3      \* processImage calls made on the service directly

\* `tensor`, and what preprocessImage allocates: `resized`, tf.scalar(127.5),
\* the result of div, tf.scalar(1), `normalized` and `batched` (which
\* processImage names `preprocessed`).
InputTensors == {"tensor"}
PreprocessTensors ==
  {"resized", "scalar(127.5)", "div", "scalar(1)", "normalized", "batched"}
PredictionTensors == {"predictions"}

\* `tensor.dispose(); preprocessed.dispose(); predictions.dispose();`
Disposed == {"tensor", "batched", "predictions"}

\* processImage up to its first await.  An uninitialized scanner throws
\* before anything is allocated.
ProcessImage ==
  /\ Len(images) < MaxImages
  /\ images' = Append(images,
       IF isModelLoaded
       THEN [pc |-> "predict", live |-> InputTensors \cup PreprocessTensors]
       ELSE [pc |-> "thrown", live |-> {}])
  /\ UNCHANGED << service, inflight, stores, uuidCount, session, callbacks,
                  summaries, lookups, load, sync, verified, view, log >>

\* catch: `console.error('Image processing error:', error); throw error`.
ImageThrows(i) == images' = [images EXCEPT ![i].pc = "thrown"]

ImageOnly ==
  UNCHANGED << service, inflight, stores, uuidCount, session, callbacks,
               summaries, lookups, load, sync, verified, view, log >>

\* `await this.model.predict(preprocessed)`
ImagePredictSettles ==
  \E i \in 1..Len(images) :
    /\ images[i].pc = "predict"
    /\ \/ ImageThrows(i)
       \/ images' = [images EXCEPT ![i].pc = "data",
                                   ![i].live = @ \cup PredictionTensors]
    /\ ImageOnly

\* `await predictions.data()`
ImageDataSettles ==
  \E i \in 1..Len(images) :
    /\ images[i].pc = "data"
    /\ \/ ImageThrows(i)
       \/ images' = [images EXCEPT ![i].pc = "ocr"]
    /\ ImageOnly

\* `await this.ocrWorker.recognize(imageData)`
ImageOcrSettles ==
  \E i \in 1..Len(images) :
    /\ images[i].pc = "ocr"
    /\ \/ ImageThrows(i)
       \/ images' = [images EXCEPT ![i].pc = "pricing"]
    /\ ImageOnly

\* `await this.dbService.getPricingData(deckInfo.id)`, the cleanup and the
\* return of the result.
ImagePricingSettles ==
  \E i \in 1..Len(images) :
    /\ images[i].pc = "pricing"
    /\ \/ ImageThrows(i)
       \/ images' = [images EXCEPT ![i].pc = "returned",
                                   ![i].live = @ \ Disposed]
    /\ ImageOnly

ImageNext ==
  \/ Initialize
  \/ ProcessImage
  \/ ImagePredictSettles
  \/ ImageDataSettles
  \/ ImageOcrSettles
  \/ ImagePricingSettles

ImageSpec == Init /\ [][ImageNext]_vars

\* C23: when processImage has returned a result or thrown, every tensor it
\* allocated has been released.
C23_TensorsReleased ==
  \A i \in 1..Len(images) :
    images[i].pc \in {"returned", "thrown"} => images[i].live = {}

----------------------------------------------------------------------------
(* DeckScannerService.verifyTextResults called directly, once, on a        *)
(* recognized text and a catalog entry.                                    *)

MaxTextLen == 3     \* characters of a recognized text

TextChars == {"A", "a", "B", "b"}

RECURSIVE TextsUpTo(_)
TextsUpTo(n) ==
  IF n = 0 THEN {<< >>}
  ELSE LET shorter == TextsUpTo(n - 1) IN
         shorter \cup {Append(t, ch) : t \in shorter, ch \in TextChars}

\* The texts the OCR engine can recognize.
RecognizedTexts == TextsUpTo(MaxTextLen)

\* Entries of labels.json: a manufacturer, and a casino or none.
CatalogEntries ==
  [id : {"d"},
   manufacturer : {<<"A">>, <<"a", "B">>, <<"b", "b">>},
   casino : {<< >>, <<"B">>, <<"b", "A">>}]

VerifyTextResults ==
  /\ verified = << >>
  /\ \E text \in RecognizedTexts, deckInfo \in CatalogEntries :
       verified' = << [text |-> text, deckInfo |-> deckInfo,
                       result |-> verifyTextResults(text, deckInfo)] >>
  /\ UNCHANGED << service, inflight, stores, uuidCount, session, callbacks,
                  summaries, lookups, load, sync, images, view, log >>

VerifyNext == VerifyTextResults

VerifySpec == Init /\ [][VerifyNext]_vars

\* Two characters that differ at most in case.
SameLetter(a, b) ==
  \/ a = b
  \/ {a, b} \in {{"A", "a"}, {"B", "b"}}

\* word occurs in text as a contiguous run, letter case aside.
ContainedIgnoringCase(text, word) ==
  \E offset \in 0..(Len(text) - Len(word)) :
    \A k \in 1..Len(word) : SameLetter(text[offset + k], word[k])

\* The score the claim gives, in tenths.
ExpectedScore(text, deckInfo) ==
  IF ~ContainedIgnoringCase(text, deckInfo.manufacturer) THEN 3
  ELSE IF deckInfo.casino # << >>
          /\ ContainedIgnoringCase(text, deckInfo.casino) THEN 10
  ELSE 7

\* C24: verificationScore is 1.0 when manufacturer and casino are both
\* contained in the text whatever the letter case, 0.7 when only the
\* manufacturer is, 0.3 when the manufacturer is not; it is one of the
\* three, and an entry without a casino never scores 1.0.
C24_VerificationScore ==
  \A i \in 1..Len(verified) :
    LET v == verified[i] IN
      /\ v.result.verificationScore = ExpectedScore(v.text, v.deckInfo)
      /\ v.result.verificationScore \in {3, 7, 10}
      /\ v.deckInfo.casino = << >> => v.result.verificationScore # 10

\* A text that holds manufacturer and casino in another letter case scores
\* 1.0, and an entry without a casino scores 0.7.
C24_Witness ==
  /\ verified # << >>
  /\ verified[1].text = <<"A", "b", "a">>
  /\ verified[1].deckInfo.manufacturer = <<"a", "B">>
  /\ verified[1].deckInfo.casino = <<"b", "A">>
  /\ verified[1].result.verificationScore = 10

----------------------------------------------------------------------------
(* Properties of saveScanRecord's two writes *)

\* The ids of the scan records whose transaction has not finished yet.
Committing ==
  {saves[i].record.id : i \in {j \in 1..Len(saves) : saves[j].tx = "committing"}}

\* C25: every history_sync task stored in 'sync_queue' references a scan
\* record that is committed in 'scan_history' (or is being committed by a
\* transaction still under way): never a sync task without its record.
C25_SyncTaskHasScanRecord ==
  \A k \in 1..Len(syncQueue) :
    syncQueue[k].type = "history_sync" =>
      \/ \E r \in scanHistory : r.id = syncQueue[k].recordId
      \/ syncQueue[k].recordId \in Committing

----------------------------------------------------------------------------
(* Properties of the refresh request of getPricingData *)

\* A step in which the oldest add request on 'sync_queue' fails.
AddFails ==
  /\ pendingAdds # << >>
  /\ pendingAdds' = Tail(pendingAdds)
  /\ syncQueue' = syncQueue

----------------------------------------------------------------------------
(* Properties of the average margin *)

\* C28: for every non-empty accumulator the averageMargin stopBatchScanning
\* returns is a finite number with one decimal followed by '%': no term
\* (sell - buy) / buy divides by zero.
C28_AverageMarginFinite ==
  \A n \in 1..Len(returned) :
    returned[n].results # << >> =>
      /\ returned[n].summary.averageMargin.suffix = "%"
      /\ returned[n].summary.averageMargin.text.k = "num"
      /\ returned[n].summary.averageMargin.text.digits = 1

----------------------------------------------------------------------------
(* Properties of a rejected saveScanRecord *)

\* C29: when saveScanRecord rejects for an above-threshold result, the
\* result is neither appended to the accumulator nor reported, no
\* ScanRecord and no sync task is written, the session stays as it was and
\* the gate is released; so every result in the accumulator has its
\* ScanRecord in the scan history.
C29_RejectedSaveDropsResult ==
  /\ [][\A c \in inflight :
          (c.pc = "save" /\ EndsWith(c.frame, "SaveError")) =>
            /\ c.confidence > Threshold
            /\ UNCHANGED << scanResults, notified, scanHistory, pendingAdds,
                            syncQueue, batchActive >>
            /\ ~processingLock']_vars
  /\ [](\A i \in 1..Len(scanResults) :
          \E r \in scanHistory :
            /\ r.frame = scanResults[i].frame
            /\ r.deckId = scanResults[i].deckId)

\* C29 witness: in an Active session the save of one frame's result was
\* rejected and the result is in no accumulator; the gate is free and the
\* next frame was accepted with its ScanRecord.
C29_Witness ==
  /\ batchActive
  /\ ~processingLock
  /\ \E f, g \in Frames :
       /\ log[f].outcome = "SaveError"
       /\ f \notin ResultFrames
       /\ ~\E r \in scanHistory : r.frame = f
       /\ g > f
       /\ log[g].outcome = "Accepted"
       /\ g \in ResultFrames

----------------------------------------------------------------------------
(* The ScannerView component with the DeckScannerService it creates: the   *)
(* user enables the camera, starts and stops scanning; the browser runs    *)
(* the animation frame callbacks.  A handler sees the state values of the  *)
(* render that created it.  What the scanner does with a submitted frame   *)
(* is followed in Spec.                                                    *)

\* What the component leaves alone.
ViewOnly ==
  UNCHANGED << summaries, lookups, load, sync, images, verified >>

ServiceKept ==
  UNCHANGED << service, inflight, stores, uuidCount, session, callbacks, log >>

\* initScanner: `await scannerRef.current.initialize()` settles.  initialize
\* resolves with true or false and never throws, so setInitializing(false)
\* runs.
InitScannerSettles ==
  /\ view.mounted
  /\ view.initializing
  /\ Initialized
  /\ view' = [view EXCEPT !.initializing = FALSE]
  /\ ViewOnly

\* requestCameraAccess up to `await getUserMedia(constraints)`: the button
\* is rendered while there is no camera permission.
RequestCameraAccess ==
  /\ view.mounted
  /\ ~view.initializing
  /\ ~view.cameraPermission
  /\ view.camera # "pending"
  /\ view' = [view EXCEPT !.camera = "pending"]
  /\ ViewOnly
  /\ ServiceKept

\* toggleCamera: the button is rendered in the camera view.
ToggleCamera ==
  /\ view.mounted
  /\ ~view.initializing
  /\ view.cameraPermission
  /\ view.camera # "pending"
  /\ view' = [view EXCEPT
       !.facingMode = IF @ = "environment" THEN "user" ELSE "environment",
       !.camera = "pending"]
  /\ ViewOnly
  /\ ServiceKept

\* getUserMedia settles: the stream is attached and cameraPermission set,
\* or the error is shown.
CameraSettles ==
  /\ view.mounted
  /\ view.camera = "pending"
  /\ \/ view' = [view EXCEPT !.camera = "granted", !.cameraPermission = TRUE]
     \/ view' = [view EXCEPT !.camera = "denied"]
  /\ ViewOnly
  /\ ServiceKept

\* startScanning, from the 'Start Scanning' button: rendered while not
\* scanning, enabled with the camera permission, with which the video
\* element is rendered.  processFrame closes over the `scanning` of the
\* render the handler belongs to.
StartScanning ==
  /\ view.mounted
  /\ ~view.initializing
  /\ ~view.scanning
  /\ view.cameraPermission
  /\ Started
  /\ view' = [view EXCEPT
       !.scanning = TRUE,
       !.raf = @ \cup {[scanning |-> view.scanning]},
       !.scans = @ + 1]
  /\ ViewOnly

\* The browser runs a requested animation frame callback: processFrame
\* submits a frame and requests the next callback when its `scanning` is
\* true, and does nothing otherwise.
AnimationFrame ==
  /\ view.mounted
  /\ \E processFrame \in view.raf :
       IF processFrame.scanning
       THEN /\ Submitted
            /\ UNCHANGED view
       ELSE /\ view' = [view EXCEPT !.raf = @ \ {processFrame}]
            /\ ServiceKept
  /\ ViewOnly

\* stopScanning, from the 'Finish Scanning' button: the pending callback is
\* cancelled, the scanner stopped and the summary view shown, which
\* unmounts the component.
StopScanning ==
  /\ view.mounted
  /\ view.scanning
  /\ Stopped
  /\ view' = [view EXCEPT !.scanning = FALSE, !.raf = {}, !.mounted = FALSE]
  /\ ViewOnly

\* The user returns from the summary view: ScannerView is mounted again
\* and its effect constructs a new DeckScannerService.
Mount ==
  /\ ~view.mounted
  /\ view.scans < MaxStarts
  /\ view' = NewView(view.scans)
  /\ isModelLoaded' = FALSE
  /\ initResult' = "none"
  /\ batchActive' = FALSE
  /\ processingLock' = FALSE
  /\ scanResults' = << >>
  /\ UNCHANGED << inflight, stores, uuidCount, session, callbacks, log >>
  /\ ViewOnly

ViewNext ==
  \/ Mount
  \/ InitScannerSettles
  \/ RequestCameraAccess
  \/ ToggleCamera
  \/ CameraSettles
  \/ StartScanning
  \/ AnimationFrame
  \/ StopScanning

ViewSpec == Init /\ [][ViewNext]_vars

\* The browser keeps running animation frame callbacks, and the awaited
\* operations settle; the user is free to do nothing.
ViewFairSpec ==
  /\ ViewSpec
  /\ WF_vars(AnimationFrame)
  /\ WF_vars(InitScannerSettles)
  /\ WF_vars(CameraSettles)

\* C30: once scanning has started, a frame of the session is eventually
\* submitted to the scanner, unless stopScanning is called first.
C30_FramesSubmitted ==
  view.scanning ~>
    (~view.scanning \/ \E f \in 1..Len(log) : log[f].sid = currentSession)

====
